---- MODULE Spec2Model ----
(***************************************************************************)
(* Model of vrc-get-vpm/src/unity_project/package_resolution.rs:           *)
(* the worklist-driven dependency resolution of collect_adding_packages,   *)
(* its ResolutionContext (entry table + PackageQueue) and build_result.    *)
(***************************************************************************)
EXTENDS Integers, Sequences, FiniteSets, TLC

\* ------------------------------------------------------------------ bounds
\* The size of a call: the initial candidates, the locked records, the
\* declared (root) dependencies and the catalogue records withdrawn from the
\* environment number at most this many in all.
MaxInputs == 3

\* ---------------------------------------------------------------- versions
\* crate::version::Version, reduced to major.minor and a prerelease tag.
Ver(ma, mi, p) == [major |-> ma, minor |-> mi, pre |-> p]

V10 == Ver(1, 0, FALSE)
V11 == Ver(1, 1, FALSE)
V20b == Ver(2, 0, TRUE)
V20 == Ver(2, 0, FALSE)

AllVersions == {V10, V11, V20b, V20}

\* Ord for Version: numeric parts first, a prerelease sorts before its release.
VLess(a, b) ==
    \/ a.major < b.major
    \/ a.major = b.major /\ a.minor < b.minor
    \/ a.major = b.major /\ a.minor = b.minor /\ a.pre /\ ~b.pre

VMax(a, b) == IF VLess(a, b) THEN b ELSE a

VMin(a, b) == IF VLess(b, a) THEN b ELSE a

is_pre(v) == v.pre

\* crate::version::VersionRange: one comparator on one version.
\*   "ge"    >=v        (VersionRange::same_or_later)
\*   "eq"    =v
\*   "caret" ^v         (>=v and the same major)
same_or_later(v) == [kind |-> "ge", v |-> v]

Exact(v) == [kind |-> "eq", v |-> v]

Caret(v) == [kind |-> "caret", v |-> v]

InRange(range, v) ==
    CASE range.kind = "ge" -> ~VLess(v, range.v)
      [] range.kind = "eq" -> v.major = range.v.major /\ v.minor = range.v.minor
                              /\ v.pre = range.v.pre
      [] OTHER -> ~VLess(v, range.v) /\ v.major = range.v.major

contains_pre(range) == range.v.pre

\* VersionRange::match_pre(version, allow_prerelease): a prerelease version is
\* matched only when prereleases are allowed or the comparator itself names a
\* prerelease of the same major.minor.
match_pre(range, v, allow_prerelease) ==
    /\ InRange(range, v)
    /\ v.pre => \/ allow_prerelease
                \/ /\ range.v.pre
                   /\ range.v.major = v.major
                   /\ range.v.minor = v.minor

\* crate::version::DependencyRange of a manifest: a bare version or a range.
SingleVersion(v) == [single |-> TRUE, v |-> v, range |-> same_or_later(v)]

AsRange(r) == [single |-> FALSE, v |-> r.v, range |-> r]

\* Option<Version>, as a set of at most one element
as_single_version(dependency) == IF dependency.single THEN {dependency.v} ELSE {}

as_range(dependency) == dependency.range

\* ---------------------------------------------------------- package records
\* PackageInfo: name, version, vpm_dependencies (ordered name -> range),
\* legacy_packages, and whether it is compatible with the project's Unity.
Pkg(n, v, deps, legacy, unity) ==
    [name |-> n, version |-> v, vpm_dependencies |-> deps,
     legacy_packages |-> legacy, unity |-> unity]

Dep(n, range) == [name |-> n, range |-> range]

\* The scenario of the specification's first example, plus a prerelease of B.
EnvBasic ==
    { Pkg("A", V10, <<Dep("B", Caret(V10))>>, <<>>, TRUE),
      Pkg("B", V10, <<>>, <<>>, TRUE),
      Pkg("B", V11, <<>>, <<>>, FALSE),
      Pkg("B", V20b, <<>>, <<>>, TRUE) }

\* Two packages whose versions each pin the other version of the other one.
EnvCycle ==
    { Pkg("A", V10, <<Dep("B", Exact(V10))>>, <<>>, TRUE),
      Pkg("A", V20, <<Dep("B", Exact(V20))>>, <<>>, TRUE),
      Pkg("B", V10, <<Dep("A", Exact(V20))>>, <<>>, TRUE),
      Pkg("B", V20, <<Dep("A", Exact(V10))>>, <<>>, TRUE) }

\* A@1.0 supersedes B and needs C; A@2.0 does neither; B needs C>=1.1; C needs
\* B, C@1.0 also needs A^1.0, and C@1.1 (not compatible with the project's
\* Unity) also needs A>=2.0.
EnvLegacy ==
    { Pkg("A", V10, <<Dep("C", Caret(V10))>>, <<"B">>, TRUE),
      Pkg("A", V20, <<>>, <<>>, TRUE),
      Pkg("B", V10, <<Dep("C", same_or_later(V11))>>, <<>>, TRUE),
      Pkg("C", V10, <<Dep("B", same_or_later(V10)), Dep("A", Caret(V10))>>, <<>>, TRUE),
      Pkg("C", V11, <<Dep("B", same_or_later(V10)), Dep("A", same_or_later(V20))>>,
          <<>>, FALSE) }

Catalogues == {EnvBasic, EnvCycle, EnvLegacy}

NamesOf(S) == {p.name : p \in S}

\* the root marker of `requirements` ("" key for root dependencies)
Root == ""

\* ------------------------------------------------------------- small helpers
Range(s) == {s[i] : i \in 1..Len(s)}

NoRepeat(s) == \A i, j \in 1..Len(s) : i # j => s[i] # s[j]

\* the sequences without repetition over S of length n
SeqsOver(S, n) == {s \in [1..n -> S] : NoRepeat(s)}

DistinctNames(s) == \A i, j \in 1..Len(s) : i # j => s[i].name # s[j].name

\* ------------------------------------------------------------ PackageQueue
\* PackageQueue::new: the candidate list as given, front first
PackageQueue_new(packages) == packages

\* next_package: pop_back; the record popped (none if empty) and the rest
next_package(queue) ==
    IF queue = <<>> THEN [package |-> {}, queue |-> queue]
    ELSE [package |-> {queue[Len(queue)]}, queue |-> SubSeq(queue, 1, Len(queue) - 1)]

\* find_pending_package: the first pending record of that name, front first
find_pending_package(queue, name) ==
    LET hits == {i \in 1..Len(queue) : queue[i].name = name}
    IN IF hits = {} THEN {}
       ELSE {queue[CHOOSE i \in hits : \A j \in hits : i <= j]}

\* add_pending_package: retain the other names, then push_back
add_pending_package(queue, package) ==
    Append(SelectSeq(queue, LAMBDA x : x.name # package.name), package)

\* ---------------------------------------------------------- DependencyInfo
\* #[derive(Default)]
DefaultInfo ==
    [using |-> {}, current |-> {}, requirements |-> <<>>, dependencies |-> {},
     modern_packages |-> {}, legacy_packages |-> <<>>,
     allow_pre |-> FALSE, touched |-> FALSE]

MapInsert(m, k, v) == [s \in DOMAIN m \cup {k} |-> IF s = k THEN v ELSE m[s]]

MapRemove(m, k) == [s \in DOMAIN m \ {k} |-> m[s]]

new_dependency(version_range, allow_pre) ==
    [DefaultInfo EXCEPT !.requirements = MapInsert(<<>>, Root, version_range),
                        !.allow_pre = allow_pre]

add_range(info, source, range) ==
    [info EXCEPT !.requirements = MapInsert(@, source, range), !.touched = TRUE]

\* remove_range that leaves the requirement edge in place
remove_range_kept(info, source) == [info EXCEPT !.touched = TRUE]

remove_range(info, source) ==
    [info EXCEPT !.requirements = MapRemove(@, source), !.touched = TRUE]

add_modern_package(info, modern) ==
    [info EXCEPT !.modern_packages = @ \cup {modern}, !.touched = TRUE]

\* remove_modern_package that leaves the supersession edge in place
remove_modern_package_kept(info, modern) == [info EXCEPT !.touched = TRUE]

remove_modern_package(info, modern) ==
    [info EXCEPT !.modern_packages = @ \ {modern}, !.touched = TRUE]

is_legacy(info) == info.modern_packages # {}

\* set_using_info that marks the entry touched
set_using_info_touching(info, version, dependencies) ==
    [info EXCEPT !.allow_pre = @ \/ version.pre,
                 !.current = {version},
                 !.dependencies = dependencies,
                 !.touched = TRUE]

set_using_info(info, version, dependencies) ==
    [info EXCEPT !.allow_pre = @ \/ version.pre,
                 !.current = {version},
                 !.dependencies = dependencies]

\* -------------------------------------------------------- ResolutionContext
\* HashMap::entry(name).or_default(): the table with an entry for name
or_default(table, name) ==
    IF name \in DOMAIN table THEN table ELSE MapInsert(table, name, DefaultInfo)

RECURSIVE new_entries(_, _, _)
\* ResolutionContext::new, the loop over the pending records from index i
new_entries(table, packages, i) ==
    IF i > Len(packages) THEN table
    ELSE LET t == or_default(table, packages[i].name)
         IN new_entries([t EXCEPT ![packages[i].name].allow_pre = TRUE], packages, i + 1)

ResolutionContext_new(packages) ==
    [dependencies |-> new_entries(<<>>, packages, 1),
     pending_queue |-> PackageQueue_new(packages)]

\* HashMap::insert: whatever entry the name had is replaced
add_root_dependency(table, name, range, allow_pre) ==
    MapInsert(table, name, new_dependency(range, allow_pre))

\* the environment's answer, an Option as a set of at most one record
Latest(S) ==
    IF S = {} THEN {} ELSE {CHOOSE p \in S : \A o \in S : ~VLess(p.version, o.version)}

\* PackageCollection::find_package_by_name with VersionSelector::specific_version
find_specific_version(environment, name, version) ==
    Latest({p \in environment : p.name = name /\ p.version = version})

\* PackageCollection::find_package_by_name with VersionSelector::range_for:
\* the latest record of that name in the range, among those compatible with
\* the Unity version when one is given
find_range_for(environment, name, unity, range) ==
    Latest({p \in environment :
              /\ p.name = name
              /\ match_pre(range, p.version, FALSE)
              /\ unity # {} => p.unity})

RECURSIVE insert_modern(_, _, _, _)
insert_modern(table, legacy, i, name) ==
    IF i > Len(legacy) THEN table
    ELSE LET t == or_default(table, legacy[i])
         IN insert_modern([t EXCEPT ![legacy[i]].modern_packages = @ \cup {name}],
                          legacy, i + 1, name)

RECURSIVE insert_requirements(_, _, _, _)
\* the lock's requirement edges recorded only on the entries that exist already
insert_requirements_existing_only(table, deps, i, name) ==
    [n \in DOMAIN table |->
        LET hits == {k \in 1..Len(deps) : deps[k].name = n}
        IN IF hits = {} THEN table[n]
           ELSE [table[n] EXCEPT !.requirements =
                    MapInsert(@, name, deps[CHOOSE k \in hits : TRUE].range)]]

insert_requirements(table, deps, i, name) ==
    IF i > Len(deps) THEN table
    ELSE LET t == or_default(table, deps[i].name)
         IN insert_requirements(
                [t EXCEPT ![deps[i].name].requirements = MapInsert(@, name, deps[i].range)],
                deps, i + 1, name)

DepNames(deps) == {deps[i].name : i \in 1..Len(deps)}

\* a locked record: name, version and the dependency ranges the lock recorded
add_locked_dependency(table, locked, environment) ==
    LET t0 == or_default(table, locked.name)
        t1 == [t0 EXCEPT ![locked.name] =
                  set_using_info(@, locked.version, DepNames(locked.dependencies))]
        pkg == find_specific_version(environment, locked.name, locked.version)
        t2 == IF pkg = {} THEN t1
              ELSE LET p == CHOOSE q \in pkg : TRUE
                   IN insert_modern(
                          [t1 EXCEPT ![locked.name].legacy_packages = p.legacy_packages],
                          p.legacy_packages, 1, locked.name)
    IN insert_requirements(t2, locked.dependencies, 1, locked.name)

RECURSIVE add_ranges(_, _, _, _)
\* add_package, lines 209-214: entry(dependency).or_default().add_range(name, range)
add_ranges(table, deps, i, name) ==
    IF i > Len(deps) THEN table
    ELSE LET t == or_default(table, deps[i].name)
         IN add_ranges([t EXCEPT ![deps[i].name] = add_range(@, name, deps[i].range)],
                       deps, i + 1, name)

RECURSIVE add_moderns(_, _, _, _)
\* the supersession edges of an installed record never being recorded
add_moderns_skipped(table, legacy, i, name) == table

\* add_package, lines 224-229: entry(legacy).or_default().add_modern_package(name)
add_moderns(table, legacy, i, name) ==
    IF i > Len(legacy) THEN table
    ELSE LET t == or_default(table, legacy[i])
         IN add_moderns([t EXCEPT ![legacy[i]] = add_modern_package(@, name)],
                        legacy, i + 1, name)

\* add_package that keeps the edges of the version it replaces
add_package_keeping_old_edges(table, package) ==
    LET name == package.name
        t0 == or_default(table, name)
        entry == t0[name]
        t1 == [t0 EXCEPT ![name] =
                  [@ EXCEPT !.touched = TRUE,
                            !.current = {package.version},
                            !.using = {package},
                            !.dependencies = DepNames(package.vpm_dependencies),
                            !.legacy_packages = package.legacy_packages]]
        t3 == add_ranges(t1, package.vpm_dependencies, 1, name)
        t5 == add_moderns(t3, package.legacy_packages, 1, name)
    IN IF is_legacy(entry)
       THEN [accepted |-> FALSE, panicked |-> FALSE, dependencies |-> t0]
       ELSE [accepted |-> TRUE, panicked |-> FALSE, dependencies |-> t5]

\* add_package that marks the entry touched before it looks at its legacy status
add_package_marking_first(table, package) ==
    LET name == package.name
        t0 == [or_default(table, name) EXCEPT ![name].touched = TRUE]
        entry == t0[name]
        old_dependencies == entry.dependencies
        old_legacy_packages == Range(entry.legacy_packages)
        t1 == [t0 EXCEPT ![name] =
                  [@ EXCEPT !.current = {package.version},
                            !.using = {package},
                            !.dependencies = DepNames(package.vpm_dependencies),
                            !.legacy_packages = package.legacy_packages]]
        t2 == [n \in DOMAIN t1 |->
                  IF n \in old_dependencies THEN remove_range(t1[n], name) ELSE t1[n]]
        t3 == add_ranges(t2, package.vpm_dependencies, 1, name)
        t4 == [n \in DOMAIN t3 |->
                  IF n \in old_legacy_packages THEN remove_modern_package(t3[n], name)
                  ELSE t3[n]]
        t5 == add_moderns(t4, package.legacy_packages, 1, name)
    IN IF is_legacy(entry)
       THEN [accepted |-> FALSE, panicked |-> FALSE, dependencies |-> t0]
       ELSE [accepted |-> TRUE, panicked |-> FALSE, dependencies |-> t5]

\* add_package: whether the record was accepted, whether an unwrap() of a
\* missing entry panicked, and the entry table afterwards
add_package(table, package) ==
    LET name == package.name
        t0 == or_default(table, name)
        entry == t0[name]
        vpm_dependencies == package.vpm_dependencies
        legacy_packages == package.legacy_packages
        old_dependencies == entry.dependencies
        old_legacy_packages == Range(entry.legacy_packages)
        t1 == [t0 EXCEPT ![name] =
                  [@ EXCEPT !.touched = TRUE,
                            !.current = {package.version},
                            !.using = {package},
                            !.dependencies = DepNames(vpm_dependencies),
                            !.legacy_packages = legacy_packages]]
        \* remove previous dependencies if exists
        t2 == [n \in DOMAIN t1 |->
                  IF n \in old_dependencies THEN remove_range(t1[n], name) ELSE t1[n]]
        t3 == add_ranges(t2, vpm_dependencies, 1, name)
        t4 == [n \in DOMAIN t3 |->
                  IF n \in old_legacy_packages THEN remove_modern_package(t3[n], name)
                  ELSE t3[n]]
        t5 == add_moderns(t4, legacy_packages, 1, name)
    IN IF is_legacy(entry)
       THEN [accepted |-> FALSE, panicked |-> FALSE, dependencies |-> t0]
       ELSE IF ~(old_dependencies \subseteq DOMAIN t1)
       THEN [accepted |-> FALSE, panicked |-> TRUE, dependencies |-> t1]
       ELSE IF ~(old_legacy_packages \subseteq DOMAIN t3)
       THEN [accepted |-> FALSE, panicked |-> TRUE, dependencies |-> t3]
       ELSE [accepted |-> TRUE, panicked |-> FALSE, dependencies |-> t5]

\* should_add_package with `install` starting out false: a name that is
\* neither pending nor installed is never fetched
should_add_package_default_false(table, queue, global_allow_prerelease, name, range) ==
    LET entry == table[name]
        allow == entry.allow_pre \/ global_allow_prerelease
        pending == find_pending_package(queue, name)
    IN IF is_legacy(entry) THEN FALSE
       ELSE IF pending # {}
       THEN \E p \in pending : ~match_pre(range, p.version, allow)
       ELSE \E version \in entry.current : ~match_pre(range, version, allow)

\* should_add_package without the early return for a legacy entry
should_add_package_ignoring_legacy(table, queue, global_allow_prerelease, name, range) ==
    LET entry == table[name]
        allow == entry.allow_pre \/ global_allow_prerelease
        pending == find_pending_package(queue, name)
    IN IF pending # {}
       THEN ~(\E p \in pending : match_pre(range, p.version, allow))
       ELSE ~(\E version \in entry.current : match_pre(range, version, allow))

\* should_add_package; the caller has checked that the entry exists (unwrap)
should_add_package(table, queue, global_allow_prerelease, name, range) ==
    LET entry == table[name]
        allow == entry.allow_pre \/ global_allow_prerelease
        pending == find_pending_package(queue, name)
    IN IF is_legacy(entry) THEN FALSE
       ELSE IF pending # {}
       THEN ~(\E p \in pending : match_pre(range, p.version, allow))
       ELSE ~(\E version \in entry.current : match_pre(range, version, allow))

\* the conflict scan stopping at the first requirement that fails
Conflicting_first_only(info, global_allow_prerelease) ==
    LET all == IF ~is_legacy(info) /\ info.touched
               THEN {source \in DOMAIN info.requirements :
                       \E version \in info.current :
                           ~match_pre(info.requirements[source], version,
                                      info.allow_pre \/ global_allow_prerelease)}
               ELSE {}
    IN IF all = {} THEN {} ELSE {CHOOSE source \in all : TRUE}

\* build_result: conflicts as package name -> set of sources (the lists' order
\* is HashMap iteration order), the legacy names and the installed records
Conflicting(info, global_allow_prerelease) ==
    IF ~is_legacy(info) /\ info.touched
    THEN {source \in DOMAIN info.requirements :
            \E version \in info.current :
                ~match_pre(info.requirements[source], version,
                           info.allow_pre \/ global_allow_prerelease)}
    ELSE {}

\* build_result without the is_legacy filter on the installed records
build_result_keeping_legacy(table, global_allow_prerelease) ==
    LET conflicted == {n \in DOMAIN table :
                          Conflicting(table[n], global_allow_prerelease) # {}}
    IN [new_packages |-> UNION {table[n].using : n \in DOMAIN table},
        conflicts |-> [n \in conflicted |-> Conflicting(table[n], global_allow_prerelease)],
        found_legacy_packages |-> {n \in DOMAIN table : is_legacy(table[n])}]

build_result(table, global_allow_prerelease) ==
    LET conflicted == {n \in DOMAIN table :
                          Conflicting(table[n], global_allow_prerelease) # {}}
    IN [new_packages |->
            UNION {table[n].using : n \in {m \in DOMAIN table : ~is_legacy(table[m])}},
        conflicts |-> [n \in conflicted |-> Conflicting(table[n], global_allow_prerelease)],
        found_legacy_packages |-> {n \in DOMAIN table : is_legacy(table[n])}]

\* ------------------------------------------------- collect_adding_packages
VARIABLES
    env,                  \* the package environment: a set of package records
    unity_version,        \* Option<UnityVersion>
    allow_prerelease,     \* the global flag
    manifest,             \* the `dependencies` argument: (name, DependencyRange)
    locked_dependencies,  \* the lock data, also what get_locked looks into
    packages,             \* the initial candidate list
    dependencies,         \* context.dependencies: name -> DependencyInfo
    pending_queue,        \* context.pending_queue
    root_dependencies,    \* the (name, range, allow_pre) triples of lines 327-348
    pc,                   \* where collect_adding_packages stands
    x,                    \* the record popped by the while loop, if any
    i,                    \* index of the dependency of x the for loop is at
    result,               \* Ok(PackageResolutionResult), if returned
    error,                \* Err(DependencyNotFound { dependency_name }), if returned
    installed,            \* history: the records add_package has accepted so far
    released              \* history: the names an accepted record freed of legacy status

vars == <<env, unity_version, allow_prerelease, manifest, locked_dependencies, packages,
          dependencies, pending_queue, root_dependencies, pc, x, i, result, error,
          installed, released>>

inputs == <<env, unity_version, allow_prerelease, manifest, locked_dependencies, packages>>

\* what a lock file can hold for a catalogue: a record's name, version and ranges
LockChoices(catalogue) ==
    {[name |-> p.name, version |-> p.version, dependencies |-> p.vpm_dependencies] :
        p \in catalogue}

\* the bare versions a manifest can declare
RootVersions == {V10, V20b, V20}

\* what a manifest can declare: a bare version, or the range >=1.0
RootChoices(catalogue) ==
    {[name |-> n, dependency |-> d] :
        n \in NamesOf(catalogue),
        d \in {SingleVersion(v) : v \in RootVersions} \cup {AsRange(same_or_later(V10))}}

\* get_locked: by-name lookup into the lock data
get_locked(locked, name) == {l \in Range(locked) : l.name = name}

\* the call's arguments, and the context as ResolutionContext::new leaves it
Init ==
    /\ \E catalogue \in Catalogues :
         \E nMissing \in 0..MaxInputs :
           \E nPackages \in 0..(MaxInputs - nMissing) :
             \E nLocked \in 0..(MaxInputs - nMissing - nPackages) :
               \E nRoots \in 0..(MaxInputs - nMissing - nPackages - nLocked) :
                 /\ \E missing \in SUBSET catalogue :
                       /\ Cardinality(missing) = nMissing
                       /\ env = catalogue \ missing
                 /\ packages \in SeqsOver(env, nPackages)
                 /\ locked_dependencies \in
                       {l \in SeqsOver(LockChoices(catalogue), nLocked) : DistinctNames(l)}
                 /\ manifest \in
                       {m \in SeqsOver(RootChoices(catalogue), nRoots) : DistinctNames(m)}
    /\ unity_version \in {{}, {"2022"}}
    /\ allow_prerelease \in BOOLEAN
    /\ dependencies = ResolutionContext_new(packages).dependencies
    /\ pending_queue = ResolutionContext_new(packages).pending_queue
    /\ root_dependencies = <<>>
    /\ pc = "roots"
    /\ x = {}
    /\ i = 0
    /\ result = {}
    /\ error = {}
    /\ installed = {}
    /\ released = {}

\* root_dependency that never consults the lock for the floor
root_dependency_ignoring_lock(name, dependency, locked) ==
    IF as_single_version(dependency) # {}
    THEN LET requested == CHOOSE v \in as_single_version(dependency) : TRUE
         IN [name |-> name,
             range |-> same_or_later(requested),
             allow_pre |-> is_pre(requested)
                           \/ (\E l \in get_locked(locked, name) : l.version.pre)]
    ELSE [name |-> name,
          range |-> as_range(dependency),
          allow_pre |-> contains_pre(as_range(dependency))]

\* lines 329-347: one manifest dependency to its (name, range, allow_pre)
root_dependency(name, dependency, locked) ==
    IF as_single_version(dependency) # {}
    THEN LET requested == CHOOSE v \in as_single_version(dependency) : TRUE
             lockedv == {l.version : l \in get_locked(locked, name)}
             min_ver == IF \E l \in lockedv : VLess(l, requested)
                        THEN CHOOSE l \in lockedv : TRUE
                        ELSE requested
         IN [name |-> name,
             range |-> same_or_later(min_ver),
             allow_pre |-> is_pre(requested) \/ (\E l \in lockedv : l.pre)]
    ELSE [name |-> name,
          range |-> as_range(dependency),
          allow_pre |-> contains_pre(as_range(dependency))]

RECURSIVE add_root_dependencies(_, _, _)
\* lines 350-352
add_root_dependencies(table, roots, k) ==
    IF k > Len(roots) THEN table
    ELSE add_root_dependencies(
             add_root_dependency(table, roots[k].name, roots[k].range, roots[k].allow_pre),
             roots, k + 1)

RECURSIVE add_locked_dependencies(_, _, _, _)
\* lines 355-357
add_locked_dependencies(table, locked, k, environment) ==
    IF k > Len(locked) THEN table
    ELSE add_locked_dependencies(add_locked_dependency(table, locked[k], environment),
                                 locked, k + 1, environment)

\* "first, add dependencies": lines 327-352
SeedRoots ==
    /\ pc = "roots"
    /\ root_dependencies' =
          [k \in 1..Len(manifest) |->
              root_dependency(manifest[k].name, manifest[k].dependency, locked_dependencies)]
    /\ dependencies' = add_root_dependencies(dependencies, root_dependencies', 1)
    /\ pc' = "locked"
    /\ UNCHANGED <<inputs, pending_queue, x, i, result, error, installed, released>>

\* "then, add locked dependencies info": lines 355-357
SeedLocked ==
    /\ pc = "locked"
    /\ dependencies' = add_locked_dependencies(dependencies, locked_dependencies, 1, env)
    /\ pc' = "loop"
    /\ UNCHANGED <<inputs, pending_queue, root_dependencies, x, i, result, error, installed,
                   released>>

\* the names that are legacy only because the version in effect of the
\* record's package lists them, and that the record no longer lists
SupersededOnlyBy(table, package) ==
    {B \in DOMAIN table :
        /\ table[B].modern_packages = {package.name}
        /\ B \notin Range(package.legacy_packages)}

\* lines 359-364: pop the next record and hand it to add_package
NextPackage ==
    /\ pc = "loop"
    /\ pending_queue # <<>>
    /\ LET popped == next_package(pending_queue)
           package == CHOOSE p \in popped.package : TRUE
           added == add_package(dependencies, package)
       IN /\ pending_queue' = popped.queue
          /\ dependencies' = added.dependencies
          /\ x' = {package}
          /\ installed' = IF added.accepted THEN installed \cup {package} ELSE installed
          /\ released' = IF added.accepted
                          THEN released \cup SupersededOnlyBy(dependencies, package)
                          ELSE released
          /\ IF added.panicked THEN pc' = "panic" /\ i' = 0
             ELSE IF added.accepted /\ Len(package.vpm_dependencies) > 0
             THEN pc' = "deps" /\ i' = 1
             ELSE pc' = "loop" /\ i' = 0
    /\ UNCHANGED <<inputs, root_dependencies, result, error>>

\* the for loop going on to the next dependency when a fetch finds nothing
ProcessDependency_skipping_missing ==
    /\ pc = "deps"
    /\ LET package == CHOOSE p \in x : TRUE
           dependency == package.vpm_dependencies[i].name
           range == package.vpm_dependencies[i].range
           constrained == find_range_for(env, dependency, unity_version, range)
           found == IF constrained # {} THEN constrained
                    ELSE find_range_for(env, dependency, {}, range)
           last == i = Len(package.vpm_dependencies)
       IN /\ pending_queue' =
                IF /\ dependency \in DOMAIN dependencies
                   /\ should_add_package(dependencies, pending_queue, allow_prerelease,
                                         dependency, range)
                   /\ found # {}
                THEN add_pending_package(pending_queue, CHOOSE p \in found : TRUE)
                ELSE pending_queue
          /\ pc' = IF last THEN "loop" ELSE "deps"
          /\ i' = IF last THEN 0 ELSE i + 1
    /\ UNCHANGED <<inputs, dependencies, root_dependencies, x, result, error, installed,
                   released>>

\* lines 366-388: one dependency of the accepted record
ProcessDependency ==
    /\ pc = "deps"
    /\ LET package == CHOOSE p \in x : TRUE
           dependency == package.vpm_dependencies[i].name
           range == package.vpm_dependencies[i].range
           constrained == find_range_for(env, dependency, unity_version, range)
           found == IF constrained # {} THEN constrained
                    ELSE find_range_for(env, dependency, {}, range)
           last == i = Len(package.vpm_dependencies)
       IN IF dependency \notin DOMAIN dependencies
          THEN pc' = "panic" /\ UNCHANGED <<pending_queue, i, error>>
          ELSE IF ~should_add_package(dependencies, pending_queue, allow_prerelease,
                                      dependency, range)
          THEN /\ pc' = IF last THEN "loop" ELSE "deps"
               /\ i' = IF last THEN 0 ELSE i + 1
               /\ UNCHANGED <<pending_queue, error>>
          ELSE IF found = {}
          THEN /\ pc' = "error"
               /\ error' = {dependency}
               /\ UNCHANGED <<pending_queue, i>>
          ELSE /\ pending_queue' =
                     add_pending_package(pending_queue, CHOOSE p \in found : TRUE)
               /\ pc' = IF last THEN "loop" ELSE "deps"
               /\ i' = IF last THEN 0 ELSE i + 1
               /\ UNCHANGED error
    /\ UNCHANGED <<inputs, dependencies, root_dependencies, x, result, installed, released>>

\* line 392: the worklist is empty
BuildResult ==
    /\ pc = "loop"
    /\ pending_queue = <<>>
    /\ result' = {build_result(dependencies, allow_prerelease)}
    /\ pc' = "done"
    /\ UNCHANGED <<inputs, dependencies, pending_queue, root_dependencies, x, i, error,
                   installed, released>>

Next ==
    \/ SeedRoots
    \/ SeedLocked
    \/ NextPackage
    \/ ProcessDependency
    \/ BuildResult

Spec == Init /\ [][Next]_vars

\* The calls with an empty manifest and the global prerelease flag off.
FairInit == Init /\ manifest = <<>> /\ ~allow_prerelease

\* collect_adding_packages is sequential code on one thread: as long as a
\* next step exists it is taken.
FairSpec == FairInit /\ [][Next]_vars /\ WF_vars(Next)

\* ------------------------------------------------------------------ claims
Returned == CHOOSE r \in result : TRUE

EntryOf(name) == or_default(dependencies, name)[name]

LockedNames == {l.name : l \in Range(locked_dependencies)}

A10 == Pkg("A", V10, <<Dep("B", Caret(V10))>>, <<>>, TRUE)

B11 == Pkg("B", V11, <<>>, <<>>, FALSE)

\* the first example scenario of the specification, but for the candidate list
C1Scenario ==
    /\ env = {A10, Pkg("B", V10, <<>>, <<>>, TRUE), B11}
    /\ manifest = <<[name |-> "A", dependency |-> SingleVersion(V10)]>>
    /\ locked_dependencies = <<>>
    /\ unity_version = {}
    /\ ~allow_prerelease

\* C1 as claimed: in the example scenario with no initial candidates the
\* result is installed {A@1.0, B@1.1}, no conflicts, no legacy names.
C1_AsClaimed ==
    (pc = "done" /\ C1Scenario /\ packages = <<>>)
        => Returned = [new_packages |-> {A10, B11}, conflicts |-> <<>>,
                       found_legacy_packages |-> {}]

\* C1 amended: a root dependency that is neither locked nor an initial
\* candidate is not resolved by collect_adding_packages: in the example
\* scenario with no initial candidates the result has no installed packages,
\* no conflicts and no legacy names; with A@1.0 passed as the initial
\* candidate the result is installed {A@1.0, B@1.1}, no conflicts, no legacy.
C1_RootNeedsCandidate ==
    (pc = "done" /\ C1Scenario)
        => /\ packages = <<>>
                => Returned = [new_packages |-> {}, conflicts |-> <<>>,
                               found_legacy_packages |-> {}]
           /\ packages = <<A10>>
                => Returned = [new_packages |-> {A10, B11}, conflicts |-> <<>>,
                               found_legacy_packages |-> {}]

C1_Witness ==
    /\ pc = "done"
    /\ C1Scenario
    /\ packages = <<>>
    /\ "A" \in DOMAIN dependencies
    /\ Returned.new_packages = {}

\* the manifest entries that name a bare version V while the lock holds L
PinnedAndLocked ==
    {k \in 1..Len(manifest) :
        manifest[k].dependency.single /\ get_locked(locked_dependencies, manifest[k].name) # {}}

Requested(k) == manifest[k].dependency.v

LockedVersion(k) ==
    (CHOOSE l \in get_locked(locked_dependencies, manifest[k].name) : TRUE).version

RootRange(k) == dependencies[manifest[k].name].requirements[Root]

C3_Terminates == <>(pc \in {"done", "error"})

C5_LegacyExclusive ==
    pc = "done" =>
        /\ Returned.found_legacy_packages =
              {n \in DOMAIN dependencies : dependencies[n].modern_packages # {}}
        /\ \A P \in Returned.new_packages : P.name \notin Returned.found_legacy_packages

C5_Witness ==
    /\ pc = "done"
    /\ \E P \in installed :
          /\ dependencies[P.name].using = {P}
          /\ P.name \in Returned.found_legacy_packages
          /\ P \notin Returned.new_packages

\* the dependency whose fetch the for loop is about to find missing, if any
FailingFetch ==
    IF pc # "deps" THEN {}
    ELSE LET package == CHOOSE p \in x : TRUE
             dependency == package.vpm_dependencies[i]
         IN IF /\ dependency.name \in DOMAIN dependencies
               /\ should_add_package(dependencies, pending_queue, allow_prerelease,
                                     dependency.name, dependency.range)
               /\ find_range_for(env, dependency.name, unity_version, dependency.range) = {}
               /\ find_range_for(env, dependency.name, {}, dependency.range) = {}
            THEN {dependency.name}
            ELSE {}

\* C6: when should_add_package asks for a fetch of D and neither the
\* platform-constrained nor the unconstrained lookup finds a record, the very
\* next step returns DependencyNotFound naming D; no step follows the error
\* (no further worklist item is processed) and no result is ever returned.
C6_FailFast ==
    [][/\ FailingFetch # {} => (pc' = "error" /\ error' = FailingFetch)
       /\ pc # "error"
       /\ pc' = "error" => (result' = {} /\ dependencies' = dependencies
                            /\ pending_queue' = pending_queue)]_vars

C6_Witness ==
    /\ pc = "error"
    /\ error # {}
    /\ unity_version # {}
    /\ pending_queue # <<>>
    /\ result = {}

\* C7: in a result, for every entry that is touched, not legacy and has a
\* current version, every requirement source whose range does not match that
\* version under (entry.allow_pre or the global flag) is in the conflict list
\* keyed by the entry's name, all of them when there are several.
C7_ConflictComplete ==
    pc = "done" =>
        \A n \in DOMAIN dependencies :
            LET info == dependencies[n]
            IN (info.touched /\ info.modern_packages = {} /\ info.current # {}) =>
                  \A source \in DOMAIN info.requirements :
                      (\E version \in info.current :
                          ~match_pre(info.requirements[source], version,
                                     info.allow_pre \/ allow_prerelease))
                      => /\ n \in DOMAIN Returned.conflicts
                         /\ source \in Returned.conflicts[n]

C7_Witness ==
    /\ pc = "done"
    /\ \E n \in DOMAIN Returned.conflicts :
          /\ Cardinality(Returned.conflicts[n]) >= 2
          /\ Root \in Returned.conflicts[n]

\* the names a record that was lock-seeded (and found in the environment) or
\* accepted by add_package during the run declares as legacy
EverDeclaredLegacy ==
    UNION {Range(P.legacy_packages) : P \in installed}
    \cup UNION {Range(P.legacy_packages) :
                  P \in UNION {find_specific_version(env, l.name, l.version) :
                                  l \in Range(locked_dependencies)}}

\* the names declared legacy by the version in effect of some package
DeclaredLegacyNow ==
    UNION {Range(dependencies[A].legacy_packages) : A \in DOMAIN dependencies}

\* C8 as claimed: a locked name B that a locked (and found) or installed
\* package declares as legacy is in the legacy-name list of the result and
\* no installed package of the result is named B.
C8_AsClaimed ==
    pc = "done" =>
        \A B \in LockedNames \cap EverDeclaredLegacy :
            /\ B \in Returned.found_legacy_packages
            /\ \A P \in Returned.new_packages : P.name # B

\* C8 amended: a locked name B that is declared as legacy by the version in
\* effect, when the result is built, of some package A (the last record
\* add_package accepted for A, else A's locked version found in the
\* environment) is in the legacy-name list and no installed package of the
\* result is named B.
C8_SupersededLockedExcluded ==
    pc = "done" =>
        \A B \in LockedNames \cap DeclaredLegacyNow :
            /\ B \in Returned.found_legacy_packages
            /\ \A P \in Returned.new_packages : P.name # B

C8_Witness ==
    /\ pc = "done"
    /\ \E B \in LockedNames \cap DeclaredLegacyNow :
          /\ dependencies[B].current # {}
          /\ \E P \in installed : B \in Range(P.legacy_packages)

\* C9 as claimed: a run in which no fetch fails returns a result.
C9_ReturnsUnlessNotFound == [](pc # "error") => <>(pc = "done")

\* the record the while loop is about to pop
Top == pending_queue[Len(pending_queue)]

\* the next step is an add_package call that accepts the record
AddPackageAccepts ==
    /\ pc = "loop"
    /\ pending_queue # <<>>
    /\ ~is_legacy(EntryOf(Top.name))

RequirementsOf(table, D) == IF D \in DOMAIN table THEN table[D].requirements ELSE <<>>

ModernOf(table, D) == IF D \in DOMAIN table THEN table[D].modern_packages ELSE {}

\* the requirement edges of D but the one keyed by source N
WithoutSource(requirements, N) == [s \in DOMAIN requirements \ {N} |-> requirements[s]]

\* C10: when add_package accepts a record for name N, afterwards every other
\* name D holds a requirement edge keyed by N iff the record declares D as a
\* dependency, with the record's range, and has N among its modern packages
\* iff the record lists D as legacy; edges of the replaced version that the
\* new one lacks are gone, and no edge keyed by another source changes on any
\* entry.
C10_DiffSymmetry ==
    [][AddPackageAccepts =>
          LET N == Top.name
              deps == Top.vpm_dependencies
          IN /\ \A D \in DOMAIN dependencies' \ {N} :
                   /\ N \in DOMAIN dependencies'[D].requirements <=> D \in DepNames(deps)
                   /\ \A k \in 1..Len(deps) :
                         deps[k].name = D => dependencies'[D].requirements[N] = deps[k].range
                   /\ N \in dependencies'[D].modern_packages
                         <=> D \in Range(Top.legacy_packages)
             /\ \A D \in DOMAIN dependencies' :
                   /\ WithoutSource(dependencies'[D].requirements, N)
                         = WithoutSource(RequirementsOf(dependencies, D), N)
                   /\ dependencies'[D].modern_packages \ {N}
                         = ModernOf(dependencies, D) \ {N}
             /\ DOMAIN dependencies \subseteq DOMAIN dependencies']_vars

\* a record in effect for a name whose replaced version (installed earlier in
\* the run, or lock-seeded) had a dependency and a legacy name it lacks
C10_Witness ==
    /\ pc = "loop"
    /\ \E P \in x :
          /\ dependencies[P.name].using = {P}
          /\ \E Q \in installed \ {P} :
                /\ Q.name = P.name
                /\ \E D \in DepNames(Q.vpm_dependencies) \ DepNames(P.vpm_dependencies) :
                      /\ D # P.name
                      /\ P.name \notin DOMAIN dependencies[D].requirements
                /\ \E D \in Range(Q.legacy_packages) \ Range(P.legacy_packages) :
                      /\ D # P.name
                      /\ P.name \notin dependencies[D].modern_packages

\* the names of the initial candidates
CandidateNames == {packages[k].name : k \in 1..Len(packages)}

\* C11 as claimed: an entry's allow_pre is never narrowed (once true it is
\* true after every step), and the entry of every initial candidate has
\* allow_pre = TRUE when the driver loop starts and when the result is built,
\* whatever the manifest declares for the same name.
C11_NeverNarrowed ==
    [][/\ \A n \in DOMAIN dependencies :
             dependencies[n].allow_pre =>
                 (n \in DOMAIN dependencies' /\ dependencies'[n].allow_pre)
       /\ pc' \in {"loop", "done"} =>
             \A n \in CandidateNames : dependencies'[n].allow_pre]_vars

NoDuplicateNames(queue) ==
    \A a, b \in 1..Len(queue) : a # b => queue[a].name # queue[b].name

\* the record the for loop is about to hand to add_pending_package, if any
FetchedRecord ==
    IF pc # "deps" THEN {}
    ELSE LET package == CHOOSE p \in x : TRUE
             dependency == package.vpm_dependencies[i]
             constrained == find_range_for(env, dependency.name, unity_version,
                                           dependency.range)
         IN IF /\ dependency.name \in DOMAIN dependencies
               /\ should_add_package(dependencies, pending_queue, allow_prerelease,
                                     dependency.name, dependency.range)
            THEN IF constrained # {} THEN constrained
                 ELSE find_range_for(env, dependency.name, {}, dependency.range)
            ELSE {}

\* C12 as claimed: at every point of a run, the worklist built from the
\* initial candidate list included, the worklist holds at most one pending
\* record per package name; and after add_pending_package(p) the only pending
\* record named p.name is p, which next_package returns next.
C12_WorklistDedup ==
    [][/\ NoDuplicateNames(pending_queue)
       /\ NoDuplicateNames(pending_queue')
       /\ \A p \in FetchedRecord :
             /\ {k \in 1..Len(pending_queue') : pending_queue'[k].name = p.name}
                   = {Len(pending_queue')}
             /\ next_package(pending_queue').package = {p}]_vars

\* the next step is an add_package call on a record whose name is legacy
AddPackageRejects ==
    /\ pc = "loop"
    /\ pending_queue # <<>>
    /\ is_legacy(EntryOf(Top.name))

\* C13: when add_package is called with a record whose name's entry has a
\* non-empty modern_packages set, it returns false (the record is not
\* installed), every field of every entry of the table is as before, and the
\* driver goes straight on to the next worklist item without processing any
\* of the record's dependencies.
C13_LegacyNoOp ==
    [][AddPackageRejects =>
          /\ dependencies' = dependencies
          /\ installed' = installed
          /\ pc' = "loop"
          /\ pending_queue' = SubSeq(pending_queue, 1, Len(pending_queue) - 1)]_vars

\* a record with dependencies has just been rejected for its legacy name
C13_Witness ==
    /\ pc = "loop"
    /\ \E P \in x :
          /\ is_legacy(dependencies[P.name])
          /\ Len(P.vpm_dependencies) > 0
          /\ P \notin installed
          /\ dependencies[P.name].using = {}

\* the (name, range) pair the for loop is at, if any
DependencyAt ==
    IF pc = "deps" THEN {(CHOOSE p \in x : TRUE).vpm_dependencies[i]} ELSE {}

\* C14: when the for loop comes to a dependency whose entry is legacy at that
\* moment, should_add_package returns false for it, whatever its requirements,
\* pending record and current version are; the step makes no lookup by range
\* (so it cannot end in DependencyNotFound) and pushes nothing onto the
\* worklist.
C14_LegacyNeverFetched ==
    [][\A d \in DependencyAt :
          (d.name \in DOMAIN dependencies /\ is_legacy(dependencies[d.name])) =>
              /\ ~should_add_package(dependencies, pending_queue, allow_prerelease,
                                     d.name, d.range)
              /\ pending_queue' = pending_queue
              /\ pc' \in {"loop", "deps"}
              /\ error' = {}]_vars

\* all dependencies of an accepted record have been gone through; one of them
\* is legacy, neither pending nor installed, and the environment has a record
\* in its range
C14_Witness ==
    /\ pc = "loop"
    /\ \E P \in x \cap installed :
          /\ dependencies[P.name].using = {P}
          /\ \E k \in 1..Len(P.vpm_dependencies) :
                LET d == P.vpm_dependencies[k]
                IN /\ is_legacy(dependencies[d.name])
                   /\ find_pending_package(pending_queue, d.name) = {}
                   /\ dependencies[d.name].current = {}
                   /\ find_range_for(env, d.name, {}, d.range) # {}

\* the pending records of that name
PendingNamed(name) ==
    {pending_queue[k] : k \in {j \in 1..Len(pending_queue) : pending_queue[j].name = name}}

\* C15 as claimed: when the driver calls should_add_package for a non-legacy
\* dependency name with required range R, under the effective prerelease flag
\* (entry.allow_pre or the global flag) it returns false iff a pending record
\* for the name exists and its version matches R, or no pending record exists
\* and the entry has a current version matching R; it returns true in every
\* other case.
C15_FetchDecision ==
    \A d \in DependencyAt :
        LET entry == dependencies[d.name]
            allow == entry.allow_pre \/ allow_prerelease
        IN ~is_legacy(entry) =>
              (~should_add_package(dependencies, pending_queue, allow_prerelease,
                                   d.name, d.range)
               <=> \/ \E p \in PendingNamed(d.name) : match_pre(d.range, p.version, allow)
                   \/ /\ PendingNamed(d.name) = {}
                      /\ \E version \in entry.current :
                            match_pre(d.range, version, allow))

\* C16 as claimed: a name B that was legacy only because package M's version
\* in effect listed it, once add_package has accepted a version of M that
\* does not list B, is not legacy any more (so add_package accepts B) and is
\* not in the legacy-name list of the result. Stated for the calls whose
\* initial candidates have distinct names, which is enough to refute it.
C16_AsClaimed ==
    NoDuplicateNames(packages) =>
        \A B \in released :
            /\ ~is_legacy(EntryOf(B))
            /\ pc = "done" => B \notin Returned.found_legacy_packages

\* C16 amended: if B is legacy only because M's installed or lock-seeded
\* version lists it and add_package accepts a version of M that does not list
\* B, B's entry is not legacy right after that call; during the loop an entry
\* that is not legacy becomes legacy only by add_package accepting a record
\* that lists its name as legacy (for one, the earlier version of M, fetched
\* and installed again); add_package accepts every record whose name's entry
\* is not legacy at the call; and the legacy-name list of the result holds
\* exactly the names whose entry is legacy when the result is built.
C16_ReleasedUntilRelisted ==
    [][/\ AddPackageAccepts =>
             /\ Top \in installed'
             /\ \A B \in SupersededOnlyBy(dependencies, Top) :
                   ~is_legacy(dependencies'[B])
       /\ \A B \in DOMAIN dependencies' :
             (pc \in {"loop", "deps"} /\ ~is_legacy(EntryOf(B))
                 /\ is_legacy(dependencies'[B]))
             => (AddPackageAccepts /\ B \in Range(Top.legacy_packages))
       /\ pc' = "done" =>
             (CHOOSE r \in result' : TRUE).found_legacy_packages
                 = {B \in DOMAIN dependencies : is_legacy(dependencies[B])}]_vars

\* B, legacy from the lock seeding on, was freed by a new version of the
\* package that superseded it, installed after that and returned
C16_Witness ==
    /\ pc = "done"
    /\ \E B \in released :
          /\ \E l \in Range(locked_dependencies) :
                \E P \in find_specific_version(env, l.name, l.version) :
                    B \in Range(P.legacy_packages)
          /\ dependencies[B].using # {}
          /\ dependencies[B].using \subseteq Returned.new_packages
          /\ B \notin Returned.found_legacy_packages

\* the dependency ranges and the legacy list of the version of X in effect:
\* the record in `using`, else what the lock seeding recorded
InEffect(X) ==
    IF dependencies[X].using # {}
    THEN LET P == CHOOSE P \in dependencies[X].using : TRUE
         IN [deps |-> P.vpm_dependencies, legacy |-> P.legacy_packages]
    ELSE IF get_locked(locked_dependencies, X) # {}
    THEN LET l == CHOOSE l \in get_locked(locked_dependencies, X) : TRUE
             found == find_specific_version(env, l.name, l.version)
         IN [deps |-> l.dependencies,
             legacy |-> IF found = {} THEN <<>>
                        ELSE (CHOOSE P \in found : TRUE).legacy_packages]
    ELSE [deps |-> <<>>, legacy |-> <<>>]

\* C17: after the seeding and after every add_package, for all names X and D,
\* D is in X's entry.dependencies iff D's entry.requirements has an edge keyed
\* by X, and D is in X's entry.legacy_packages iff D's entry.modern_packages
\* contains X; the edges keyed by X are those of the version of X in effect
\* (the last record add_package accepted for X, else X's lock record), with
\* its ranges.
C17_EdgeConsistency ==
    pc \in {"loop", "deps", "done", "error"} =>
        \A X \in DOMAIN dependencies :
            /\ \A D \in DOMAIN dependencies :
                  /\ D \in dependencies[X].dependencies
                        <=> X \in DOMAIN dependencies[D].requirements
                  /\ D \in Range(dependencies[X].legacy_packages)
                        <=> X \in dependencies[D].modern_packages
            /\ dependencies[X].dependencies \subseteq DOMAIN dependencies
            /\ Range(dependencies[X].legacy_packages) \subseteq DOMAIN dependencies
            /\ DOMAIN dependencies[X].requirements \subseteq DOMAIN dependencies \cup {Root}
            /\ dependencies[X].modern_packages \subseteq DOMAIN dependencies
            /\ dependencies[X].dependencies = DepNames(InEffect(X).deps)
            /\ dependencies[X].legacy_packages = InEffect(X).legacy
            /\ \A k \in 1..Len(InEffect(X).deps) :
                  dependencies[InEffect(X).deps[k].name].requirements[X]
                      = InEffect(X).deps[k].range

\* a record has just replaced a lock-seeded version of its package that had a
\* dependency the record lacks, and the edge of that dependency is gone
C17_Witness ==
    /\ pc = "loop"
    /\ \E P \in x \cap installed :
          /\ dependencies[P.name].using = {P}
          /\ \E l \in get_locked(locked_dependencies, P.name) :
                \E D \in DepNames(l.dependencies) \ DepNames(P.vpm_dependencies) :
                    /\ D # P.name
                    /\ P.name \notin DOMAIN dependencies[D].requirements
                    /\ D \notin dependencies[P.name].dependencies

\* every name an entry refers to, and the dependency the for loop is at, has
\* an entry, and no unwrap() has failed
EntriesExist ==
    /\ pc # "panic"
    /\ \A n \in DOMAIN dependencies :
          /\ dependencies[n].dependencies \subseteq DOMAIN dependencies
          /\ Range(dependencies[n].legacy_packages) \subseteq DOMAIN dependencies
    /\ \A d \in DependencyAt : d.name \in DOMAIN dependencies

\* C18: between the operations of a run, every name in any entry's
\* dependencies set or legacy_packages list, and every dependency name the
\* driver passes to should_add_package, has an entry in the table, so that no
\* unwrap() in add_package or should_add_package fails; and no step removes
\* an entry from the table.
C18_NoMissingEntry ==
    [][/\ EntriesExist
       /\ EntriesExist'
       /\ DOMAIN dependencies \subseteq DOMAIN dependencies']_vars

\* add_package has just looked up the dependencies and the legacy names of
\* the lock-seeded version it replaced, and the record has dependencies for
\* should_add_package
C18_Witness ==
    /\ pc = "deps"
    /\ \E P \in x \cap installed :
          \E l \in get_locked(locked_dependencies, P.name) :
              /\ l.dependencies # <<>>
              /\ \E Q \in find_specific_version(env, l.name, l.version) :
                    Q.legacy_packages # <<>>

\* C19 as claimed: in every result, each source named in a conflict list,
\* other than the root marker, is a package whose entry is not legacy when
\* the run ends: no conflict is attributed to a package of the legacy-name
\* list of the same result.
C19_NoConflictFromExcluded ==
    pc = "done" =>
        \A n \in DOMAIN Returned.conflicts :
            \A source \in Returned.conflicts[n] \ {Root} :
                /\ ~is_legacy(EntryOf(source))
                /\ source \notin Returned.found_legacy_packages

\* the entries an accepting add_package of the record writes: its own, and
\* those it takes a requirement or modern-package edge from or gives one to
Affected(package) ==
    {package.name}
    \cup EntryOf(package.name).dependencies
    \cup DepNames(package.vpm_dependencies)
    \cup Range(EntryOf(package.name).legacy_packages)
    \cup Range(package.legacy_packages)

\* C20: the seeding from roots and lock data sets touched on no entry; during
\* the driver loop an entry becomes touched exactly when add_package installs
\* it or adds or removes a requirement edge or a modern-package edge on it,
\* and stays touched; an entry that is not touched when the result is built
\* has no conflict list, whatever its current version and requirements are.
C20_TouchedScope ==
    [][/\ pc \in {"roots", "locked"} =>
             \A n \in DOMAIN dependencies' : ~dependencies'[n].touched
       /\ pc \notin {"roots", "locked"} =>
             \A n \in DOMAIN dependencies' :
                 dependencies'[n].touched
                     <=> \/ EntryOf(n).touched
                         \/ AddPackageAccepts /\ n \in Affected(Top)
       /\ pc' = "done" =>
             \A n \in DOMAIN dependencies :
                 ~dependencies[n].touched
                     => n \notin DOMAIN (CHOOSE r \in result' : TRUE).conflicts]_vars

\* a package was installed, and the result has no conflict for a locked entry
\* that no installation affected although its locked version violates a
\* requirement seeded from the lock data
C20_Witness ==
    /\ pc = "done"
    /\ installed # {}
    /\ \E n \in LockedNames :
          LET info == dependencies[n]
          IN /\ ~info.touched
             /\ ~is_legacy(info)
             /\ \E source \in DOMAIN info.requirements : \E version \in info.current :
                   ~match_pre(info.requirements[source], version,
                              info.allow_pre \/ allow_prerelease)
             /\ n \notin DOMAIN Returned.conflicts

====
